---- MODULE Spec2Model ----
(***************************************************************************)
(* The recommendation engine of hotel-qr-menu: the Pair Store              *)
(* (ItemPairFrequency rows), the Pair Updater that runs from the Order     *)
(* post_save signal, the Recommendation Retriever, the Event Tracker       *)
(* (RecommendationEvent rows) and the Analytics Aggregator.                *)
(*                                                                         *)
(* Scope: menu items are a fixed catalogue (menu-item deletion, which      *)
(* nulls order lines and cascades into the Pair Store, is outside the      *)
(* model); every handler runs to completion before the next one starts     *)
(* (one request at a time), except in ConcSpec, where two completions      *)
(* interleave at their database statements. An exception in the pair       *)
(* update is a raise after any number of iterations of its loop. Money is  *)
(* in cents, time in whole days. The tables of a hotel with table          *)
(* management are kept with the orders placed at them.                     *)
(*                                                                         *)
(* A confidence is a Python float n/d of two small integers; it is kept    *)
(* as the reduced fraction [num, den], on which ==, < and >= agree with    *)
(* the float comparison for the values the model reaches.                  *)
(***************************************************************************)
EXTENDS Integers, Sequences, FiniteSets

\* ------------------------------------------------------------------ bounds
\* requests handled in one behaviour of Spec
MaxRequests == 5
\* orders placed in one behaviour of Spec
MaxOrders == 2
\* cap on times_together in Spec
MaxTogether == 3
\* largest limit passed to get_recommendations
MaxLimit == 3
\* largest times_together in the Pair Stores RecSpec starts from
MaxTimes == 3

\* ------------------------------------------------------- program constants
\* confidence__gte=0.15, written as MinConfidencePct / PctScale
MinConfidencePct == 15
PctScale == 100
\* times_together__gte=2
MinTimesTogether == 2

\* -------------------------------------------------------------- the world
Hotels == {"h1", "h2"}
Items == {1, 2, 3, 4}
\* an id no MenuItem has: get_object_or_404 fails on it
MissingItem == 9

COMPLETED == "COMPLETED"
PENDING == "PENDING"
CANCELLED == "CANCELLED"
OrderStatus ==
    {"PENDING", "ACCEPTED", "PREPARING", "READY", "DELIVERED", "COMPLETED", "CANCELLED"}

\* request bodies of place_order, per hotel slug: the "items" list, as menu-item ids
\* (place_order looks a MenuItem up by id alone, so an order of h2 may hold items 1, 2)
Requests(h) ==
    IF h = "h1"
    THEN { <<1>>, <<2, 1>>, <<3, 1, 2>>, <<MissingItem>> }
    ELSE { <<2, 1>> }

\* the pairs of the longest request: the iterations the pair update can get through
MaxLines == 3

\* "status" values sent to update_order_status: the seven statuses and an invalid one
StatusInputs == OrderStatus \cup {"BOGUS"}

\* the tables of hotel h1, which has table management enabled; hotel h2 has none
Tables == {1, 2}
\* order.table = None
NoTable == 0

AVAILABLE == "AVAILABLE"
OCCUPIED == "OCCUPIED"
TableStatus == {"AVAILABLE", "OCCUPIED", "RESERVED", "CLEANING"}

VARIABLES
    orders,     \* Order table: sequence of [hotel, status, items], pk = index
    pairs,      \* ItemPairFrequency table: sequence of rows in insertion order
    available,  \* MenuItem.is_available, per item
    requests,   \* number of requests handled so far
    last,       \* the operation that ran last, its arguments and its result
    events,     \* RecommendationEvent table: sequence of rows in insertion order
    now,        \* the last reading of the clock
    tables,     \* Table.status, per table
    procs       \* the requests in flight in ConcSpec: where each one is in its code

vars == <<orders, pairs, available, requests, last, events, now, tables, procs>>

\* ------------------------------------------------------------ arithmetic
RECURSIVE GCD(_, _)
GCD(a, b) == IF b = 0 THEN a ELSE GCD(b, a % b)

\* the float n / d (d > 0), as a reduced fraction
Frac(n, d) == LET g == GCD(n, d) IN [num |-> n \div g, den |-> d \div g]

FracLess(x, y) == x.num * y.den < y.num * x.den
FracGeq(x, y) == x.num * y.den >= y.num * x.den

\* --------------------------------------------------------- the Pair Store
\* a fresh ItemPairFrequency row: the model's field defaults
NewPair(h, a, b) ==
    [hotel |-> h, item_a |-> a, item_b |-> b,
     times_together |-> 1,
     confidence |-> [num |-> 0, den |-> 1],
     times_recommended |-> 0,
     times_converted |-> 0,
     revenue_generated |-> 0]

\* indexes of the rows for (hotel, item_a, item_b)
Matching(store, h, a, b) ==
    { i \in 1..Len(store) :
        store[i].hotel = h /\ store[i].item_a = a /\ store[i].item_b = b }

Min(S) == CHOOSE x \in S : \A y \in S : x <= y

\* mutant: the counter is incremented on a freshly created row as well
GetOrCreateAlwaysCount(store, h, a, b) ==
    LET m == Matching(store, h, a, b) IN
    IF m = {}
    THEN Append(store, [NewPair(h, a, b) EXCEPT !.times_together = @ + 1])
    ELSE LET i == Min(m) IN
         [store EXCEPT ![i].times_together = @ + 1]

\* get_or_create(hotel, item_a_id, item_b_id), then += 1 when not created
GetOrCreateAndCount(store, h, a, b) ==
    LET m == Matching(store, h, a, b) IN
    IF m = {}
    THEN Append(store, NewPair(h, a, b))
    ELSE LET i == Min(m) IN
         [store EXCEPT ![i].times_together = @ + 1]

\* mutant: the ids are kept in the order of the order lines
CanonicalAsListed(a, b) == <<a, b>>

\* smaller id first
Canonical(a, b) == IF a > b THEN <<b, a>> ELSE <<a, b>>

\* mutant: a pair that has its row is left as it is
RecordPairOnce(store, h, a, b) ==
    LET c == Canonical(a, b) IN
    IF Matching(store, h, c[1], c[2]) = {} THEN Append(store, NewPair(h, c[1], c[2]))
    ELSE store

\* one iteration of the loop over combinations(item_ids, 2)
RecordPair(store, h, a, b) ==
    LET c == Canonical(a, b) IN GetOrCreateAndCount(store, h, c[1], c[2])

\* mutant: itertools.permutations(item_ids, 2), every ordered pair of lines
OrderedPairs(ids) ==
    LET n == Len(ids)
        idx == { p \in (1..n) \X (1..n) : p[1] # p[2] }
        rank(p) == Cardinality({ q \in idx : q[1] < p[1] \/ (q[1] = p[1] /\ q[2] < p[2]) })
    IN [k \in 1..Cardinality(idx) |->
          LET p == CHOOSE q \in idx : rank(q) = k - 1 IN <<ids[p[1]], ids[p[2]]>>]

\* itertools.combinations(item_ids, 2): index pairs i < j, in lexicographic order
Combinations(ids) ==
    LET n == Len(ids)
        idx == { p \in (1..n) \X (1..n) : p[1] < p[2] }
        rank(p) == Cardinality({ q \in idx : q[1] < p[1] \/ (q[1] = p[1] /\ q[2] < p[2]) })
    IN [k \in 1..Cardinality(idx) |->
          LET p == CHOOSE q \in idx : rank(q) = k - 1 IN <<ids[p[1]], ids[p[2]]>>]

RECURSIVE RecordPairs(_, _, _)
RecordPairs(store, h, combos) ==
    IF combos = <<>> THEN store
    ELSE RecordPairs(RecordPair(store, h, Head(combos)[1], Head(combos)[2]), h, Tail(combos))

\* mutant: the COMPLETED orders of every hotel are counted
ItemOrderCountAnyHotel(ords, h, item) ==
    Cardinality({ o \in 1..Len(ords) :
        /\ ords[o].status = COMPLETED
        /\ \E k \in 1..Len(ords[o].items) : ords[o].items[k] = item })

\* distinct COMPLETED orders of the hotel with a line for the item
ItemOrderCount(ords, h, item) ==
    Cardinality({ o \in 1..Len(ords) :
        /\ ords[o].hotel = h
        /\ ords[o].status = COMPLETED
        /\ \E k \in 1..Len(ords[o].items) : ords[o].items[k] = item })

\* mutant: a pair whose item_a is in no COMPLETED order gets confidence 0
UpdateConfidenceZeroing(store, ords, h) ==
    [i \in 1..Len(store) |->
        LET pair == store[i]
            item_a_order_count == ItemOrderCount(ords, h, pair.item_a)
        IN IF pair.hotel # h THEN pair
           ELSE IF item_a_order_count > 0
           THEN [pair EXCEPT !.confidence = Frac(pair.times_together, item_a_order_count)]
           ELSE [pair EXCEPT !.confidence = Frac(0, 1)]]

\* mutant: the denominator counts the orders of item_b
UpdateConfidenceByItemB(store, ords, h) ==
    [i \in 1..Len(store) |->
        LET pair == store[i]
            item_b_order_count == ItemOrderCount(ords, h, pair.item_b)
        IN IF pair.hotel = h /\ item_b_order_count > 0
           THEN [pair EXCEPT !.confidence = Frac(pair.times_together, item_b_order_count)]
           ELSE pair]

\* _update_confidence_scores of the engine of hotel h
UpdateConfidenceScores(store, ords, h) ==
    [i \in 1..Len(store) |->
        LET pair == store[i]
            item_a_order_count == ItemOrderCount(ords, h, pair.item_a)
        IN IF pair.hotel = h /\ item_a_order_count > 0
           THEN [pair EXCEPT !.confidence = Frac(pair.times_together, item_a_order_count)]
           ELSE pair]

\* mutant: the confidence pass runs before the item-count check
UpdateRecomputesFirst(store, ords, h, order) ==
    IF order.status # COMPLETED THEN store
    ELSE IF Len(order.items) < 2 THEN UpdateConfidenceScores(store, ords, h)
    ELSE UpdateConfidenceScores(RecordPairs(store, h, Combinations(order.items)), ords, h)

\* mutant: the status check is missing
UpdateAnyStatus(store, ords, h, order) ==
    IF Len(order.items) < 2 THEN store
    ELSE UpdateConfidenceScores(RecordPairs(store, h, Combinations(order.items)), ords, h)

\* update_pairs_from_order of SimpleRecommendationEngine(h), as the new Pair Store
UpdatePairsFromOrder(store, ords, h, order) ==
    IF order.status # COMPLETED THEN store
    ELSE IF Len(order.items) < 2 THEN store
    ELSE UpdateConfidenceScores(RecordPairs(store, h, Combinations(order.items)), ords, h)

\* which of its log lines update_pairs_from_order writes for the order
UpdateLog(order) ==
    IF order.status # COMPLETED THEN "skipped_status"
    ELSE IF Len(order.items) < 2 THEN "skipped_items"
    ELSE "updated"

\* mutant: an order saved CANCELLED takes its pairs out of the counts again
OnOrderSavedReverting(store, ords, o) ==
    IF ords[o].status = COMPLETED
    THEN UpdatePairsFromOrder(store, ords, ords[o].hotel, ords[o])
    ELSE IF ords[o].status = CANCELLED
    THEN [i \in 1..Len(store) |->
            IF /\ store[i].hotel = ords[o].hotel
               /\ \E c \in { Combinations(ords[o].items)[k] :
                                 k \in 1..Len(Combinations(ords[o].items)) } :
                      Canonical(c[1], c[2]) = <<store[i].item_a, store[i].item_b>>
               /\ store[i].times_together > 0
            THEN [store[i] EXCEPT !.times_together = @ - 1]
            ELSE store[i]]
    ELSE store

\* post_save receiver update_recommendations_on_order_complete
OnOrderSaved(store, ords, o) ==
    IF ords[o].status = COMPLETED
    THEN UpdatePairsFromOrder(store, ords, ords[o].hotel, ords[o])
    ELSE store

\* mutant: the table is freed whatever its status
OnOrderSavedTableAlways(tbls, ords, o) ==
    IF ords[o].table = NoTable THEN tbls
    ELSE IF ords[o].status \in {COMPLETED, CANCELLED}
         THEN [tbls EXCEPT ![ords[o].table] = AVAILABLE]
         ELSE tbls

\* post_save receiver update_table_status_on_order_change: an order with a table
\* that is saved COMPLETED or CANCELLED frees the table when it is OCCUPIED
OnOrderSavedTable(tbls, ords, o) ==
    IF ords[o].table = NoTable THEN tbls
    ELSE IF /\ ords[o].status \in {COMPLETED, CANCELLED}
            /\ tbls[ords[o].table] = OCCUPIED
         THEN [tbls EXCEPT ![ords[o].table] = AVAILABLE]
         ELSE tbls

\* the Pair Store update_pairs_from_order leaves behind when it raises after k
\* iterations of its loop (the store is unavailable, or line 66 compares a null id):
\* k rows written, each saved on its own, and no confidence pass
RaisedAfter(store, h, order, k) ==
    RecordPairs(store, h, SubSeq(Combinations(order.items), 1, k))

\* mutant: the receiver without its try / except
OnOrderSavedPropagating(store, ords, o, k) ==
    [pairs |-> RaisedAfter(store, ords[o].hotel, ords[o], k), raised |-> TRUE]

\* the receiver when the engine raises: except Exception logs the error and returns
OnOrderSavedRaising(store, ords, o, k) ==
    [pairs |-> RaisedAfter(store, ords[o].hotel, ords[o], k), raised |-> FALSE]

\* HTTP status codes of the JSON responses
Ok == 200
BadRequest == 400
ServerError == 500

\* ----------------------------------------------------------------- state
Init ==
    /\ orders = <<>>
    /\ pairs = <<>>
    /\ available = [i \in Items |-> TRUE]
    /\ requests = 0
    /\ last = [op |-> "none", order |-> 0, log |-> "none"]
    /\ events = <<>>
    /\ now = 0
    /\ tables = [t \in Tables |-> AVAILABLE]
    /\ procs = <<>>

\* the counters stay within the model's bound
Capped(store) == \A i \in 1..Len(store) : store[i].times_together <= MaxTogether

\* one more request fits the behaviour
Budget == requests < MaxRequests /\ requests' = requests + 1

\* the order lines place_order creates before a missing item stops it
RECURSIVE LinesOf(_)
LinesOf(req) ==
    IF req = <<>> \/ Head(req) = MissingItem THEN <<>>
    ELSE <<Head(req)>> \o LinesOf(Tail(req))

\* place_order for a location that is no table of the hotel (or a hotel without table
\* management): the order is created PENDING and saved; neither save is COMPLETED
place_order(h, req) ==
    LET order == [hotel |-> h, status |-> PENDING, items |-> LinesOf(req),
                  table |-> NoTable]
        ords == Append(orders, order)
    IN /\ orders' = ords
       /\ pairs' = OnOrderSaved(pairs, ords, Len(ords))
       /\ last' = [op |-> "place_order", order |-> Len(ords), log |-> "none"]
       /\ UNCHANGED <<available, events, now, tables, procs>>

\* place_order of hotel h1 for a location that is the number of one of its tables:
\* the table is saved OCCUPIED whatever it was, then the order is created with it
place_order_at_table(req, t) ==
    LET order == [hotel |-> "h1", status |-> PENDING, items |-> LinesOf(req), table |-> t]
        ords == Append(orders, order)
        tbls == [tables EXCEPT ![t] = OCCUPIED]
    IN /\ orders' = ords
       /\ pairs' = OnOrderSaved(pairs, ords, Len(ords))
       /\ tables' = OnOrderSavedTable(tbls, ords, Len(ords))
       /\ last' = [op |-> "place_order", order |-> Len(ords), log |-> "none"]
       /\ UNCHANGED <<available, events, now, procs>>

\* TableAdmin, list_editable = ("status",): staff set the status of a table
table_admin(t, status) ==
    /\ tables' = [tables EXCEPT ![t] = status]
    /\ last' = [op |-> "table_admin", order |-> 0, log |-> "none"]
    /\ UNCHANGED <<orders, pairs, available, events, now, procs>>

\* update_order_status: validate, set, save (which runs the post_save receivers)
update_order_status(o, new_status) ==
    /\ o \in 1..Len(orders)
    /\ IF new_status \notin OrderStatus
       THEN /\ UNCHANGED <<orders, pairs, tables>>
            /\ last' = [op |-> "update_order_status", order |-> o, log |-> "invalid_status",
                        status |-> new_status, response |-> BadRequest]
       ELSE LET ords == [orders EXCEPT ![o].status = new_status]
            IN /\ orders' = ords
               /\ pairs' = OnOrderSaved(pairs, ords, o)
               /\ tables' = OnOrderSavedTable(tables, ords, o)
               /\ last' = [op |-> "update_order_status", order |-> o,
                           log |-> IF new_status = COMPLETED
                                   THEN UpdateLog(ords[o]) ELSE "none",
                           status |-> new_status, response |-> Ok]
    /\ UNCHANGED <<available, events, now, procs>>

\* update_order_status when the pair update raises part-way: order.save() has written
\* the row before post_save runs, the receiver decides whether the view sees the raise
update_order_status_raising(o, k) ==
    /\ o \in 1..Len(orders)
    /\ LET ords == [orders EXCEPT ![o].status = COMPLETED]
           r == OnOrderSavedRaising(pairs, ords, o, k)
       IN /\ k \in 0..Len(Combinations(ords[o].items))
          /\ orders' = ords
          /\ pairs' = r.pairs
          /\ tables' = IF r.raised THEN tables ELSE OnOrderSavedTable(tables, ords, o)
          /\ last' = [op |-> "update_order_status", order |-> o, log |-> "failed",
                      status |-> COMPLETED,
                      response |-> IF r.raised THEN ServerError ELSE Ok]
    /\ UNCHANGED <<available, events, now, procs>>

\* the call about to run repeats the one that ran last
Repeated(o) == last.op = "update_pairs_from_order" /\ last.order = o

\* a direct call SimpleRecommendationEngine(order.hotel).update_pairs_from_order(order);
\* last.calls counts the calls made in a row for the order and last.before keeps the
\* Pair Store the first of them started from
update_pairs_from_order(o) ==
    /\ o \in 1..Len(orders)
    /\ pairs' = UpdatePairsFromOrder(pairs, orders, orders[o].hotel, orders[o])
    /\ last' = [op |-> "update_pairs_from_order", order |-> o, log |-> UpdateLog(orders[o]),
                calls |-> IF Repeated(o) THEN last.calls + 1 ELSE 1,
                before |-> IF Repeated(o) THEN last.before ELSE pairs]
    /\ UNCHANGED <<orders, available, events, now, tables, procs>>

\* ------------------------------------------------ Spec: the order pipeline
PlaceOrder(h, req) ==
    /\ Len(orders) < MaxOrders
    /\ Budget
    /\ place_order(h, req)

UpdateOrderStatus(o, new_status) ==
    /\ Budget
    /\ update_order_status(o, new_status)
    /\ Capped(pairs')

CallUpdatePairs(o) ==
    /\ Budget
    /\ update_pairs_from_order(o)
    /\ Capped(pairs')

UpdateOrderStatusRaising(o, k) ==
    /\ Budget
    /\ update_order_status_raising(o, k)
    /\ Capped(pairs')

Next ==
    \/ \E h \in Hotels : \E req \in Requests(h) : PlaceOrder(h, req)
    \/ \E o \in 1..MaxOrders, s \in StatusInputs : UpdateOrderStatus(o, s)
    \/ \E o \in 1..MaxOrders : CallUpdatePairs(o)
    \/ \E o \in 1..MaxOrders, k \in 0..MaxLines : UpdateOrderStatusRaising(o, k)

Spec == Init /\ [][Next]_vars

\* ----------------------- PipelineSpec: placements and status updates alone
PipelineNext ==
    \/ \E h \in Hotels : \E req \in Requests(h) : PlaceOrder(h, req)
    \/ \E o \in 1..MaxOrders, s \in StatusInputs : UpdateOrderStatus(o, s)

PipelineSpec == Init /\ [][PipelineNext]_vars

\* ------------------------------- SeatingSpec: orders at the tables of h1
\* request bodies of the orders placed at tables
SeatingRequests == { <<1>>, <<MissingItem>> }

PlaceOrderAtTable(req, t) ==
    /\ Len(orders) < MaxOrders
    /\ Budget
    /\ place_order_at_table(req, t)

SeatingNext ==
    \/ \E req \in SeatingRequests, t \in Tables : PlaceOrderAtTable(req, t)
    \/ \E req \in SeatingRequests : PlaceOrder("h1", req)
    \/ \E o \in 1..MaxOrders, s \in StatusInputs : UpdateOrderStatus(o, s)

SeatingSpec == Init /\ [][SeatingNext]_vars

\* ------------------------- TableSpec: the same, with staff editing tables
TableAdmin(t, status) ==
    /\ Budget
    /\ table_admin(t, status)

TableNext ==
    \/ \E req \in SeatingRequests, t \in Tables : PlaceOrderAtTable(req, t)
    \/ \E o \in 1..MaxOrders, s \in StatusInputs : UpdateOrderStatus(o, s)
    \/ \E t \in Tables, status \in TableStatus : TableAdmin(t, status)

TableSpec == Init /\ [][TableNext]_vars

\* ------------------------------------------- the Recommendation Retriever
MinConfidence == [num |-> MinConfidencePct, den |-> PctScale]

\* mutant: the times_together threshold is missing
QualifiesAnyCount(row, h, item) ==
    /\ row.item_a = item \/ row.item_b = item
    /\ row.hotel = h
    /\ FracGeq(row.confidence, MinConfidence)

\* the filter of get_recommendations: Q(item_a=item) | Q(item_b=item), hotel,
\* confidence__gte=0.15, times_together__gte=2
Qualifies(row, h, item) ==
    /\ row.item_a = item \/ row.item_b = item
    /\ row.hotel = h
    /\ FracGeq(row.confidence, MinConfidence)
    /\ row.times_together >= MinTimesTogether

\* mutant: order_by("-confidence") alone
OutranksByConfidence(x, y) == FracLess(y.confidence, x.confidence)

\* x comes before y under order_by("-confidence", "-times_together")
Outranks(x, y) ==
    \/ FracLess(y.confidence, x.confidence)
    \/ x.confidence = y.confidence /\ x.times_together > y.times_together

\* the orders in which the database may return the qualifying rows: sorted by the
\* two keys, rows that tie on both in any order
Rankings(store, h, item) ==
    LET q == { i \in 1..Len(store) : Qualifies(store[i], h, item) }
        n == Cardinality(q)
    IN { s \in [1..n -> q] :
           /\ \A i, j \in 1..n : i # j => s[i] # s[j]
           /\ \A i, j \in 1..n : i < j => ~Outranks(store[s[j]], store[s[i]]) }

\* the "other" item of the pair
OtherItem(row, item) == IF row.item_a = item THEN row.item_b ELSE row.item_a

\* round(confidence * 100, 1), in tenths of a percent (ties to even)
Percent(c) ==
    LET n == c.num * 1000
        q == n \div c.den
        r == n % c.den
    IN IF 2 * r > c.den \/ (2 * r = c.den /\ q % 2 = 1) THEN q + 1 ELSE q

Recommendation(row, item) ==
    [item |-> OtherItem(row, item),
     reason |-> row.times_together,
     confidence |-> Percent(row.confidence),
     pair |-> row]

\* the queryset slice [:limit] of the ranked rows
Limited(ranked, limit) ==
    SubSeq(ranked, 1, IF limit < Len(ranked) THEN limit ELSE Len(ranked))

RECURSIVE Recommend(_, _, _, _)
\* the loop over the sliced queryset: unavailable items are skipped
Recommend(store, avail, item, top) ==
    IF top = <<>> THEN <<>>
    ELSE LET row == store[Head(top)]
             rest == Recommend(store, avail, item, Tail(top))
         IN IF ~avail[OtherItem(row, item)] THEN rest
            ELSE <<Recommendation(row, item)>> \o rest

\* mutant: unavailable items are dropped before the slice is taken
RecommendationsBackfilled(store, avail, h, item, limit, ranked) ==
    Limited(Recommend(store, avail, item, ranked), limit)

\* get_recommendations(item, limit) of the engine of hotel h, for one ranking
Recommendations(store, avail, h, item, limit, ranked) ==
    Recommend(store, avail, item, Limited(ranked, limit))

get_recommendations(h, item, limit) ==
    /\ \E ranked \in Rankings(pairs, h, item) :
         last' = [op |-> "get_recommendations", order |-> 0, log |-> "none",
                  hotel |-> h, item |-> item, limit |-> limit,
                  recs |-> Recommendations(pairs, available, h, item, limit, ranked)]
    /\ UNCHANGED <<orders, pairs, available, requests, events, now, tables, procs>>

\* edit_menu_item: the is_available checkbox of the form
edit_menu_item(item, is_available) ==
    /\ available' = [available EXCEPT ![item] = is_available]
    /\ last' = [op |-> "edit_menu_item", order |-> 0, log |-> "none"]
    /\ UNCHANGED <<orders, pairs, requests, events, now, tables, procs>>

\* ---------------------------- RecSpec: retrieval over bounded Pair Stores
\* COMPLETED-order counts behind the confidences of the stores
OrderCounts == {4, 6, 20}

\* the rows a key may have: none, or times_together t and confidence t / c;
\* a row seen once fails the filter whatever its confidence, so it gets one c
RowChoices(h, a, b, times, counts) ==
    {<<>>} \cup
    { <<[NewPair(h, a, b) EXCEPT !.times_together = t, !.confidence = Frac(t, c)]>> :
        <<t, c>> \in { x \in times \X counts : x[1] >= MinTimesTogether \/ x[2] = 4 } }

\* item 2 is item_b of one pair and item_a of two; hotel h2 holds one pair of its own
Stores ==
    { r12 \o r23 \o r24 \o <<[NewPair("h2", 1, 2) EXCEPT !.times_together = MaxTimes,
                                                        !.confidence = Frac(MaxTimes, 4)]>> :
        r12 \in RowChoices("h1", 1, 2, 1..MaxTimes, OrderCounts),
        r23 \in RowChoices("h1", 2, 3, {MinTimesTogether}, OrderCounts),
        r24 \in RowChoices("h1", 2, 4, {MaxTimes}, {6, 20}) }

RecInit ==
    /\ orders = <<>>
    /\ pairs \in Stores
    /\ available = [i \in Items |-> TRUE]
    /\ requests = 0
    /\ last = [op |-> "none", order |-> 0, log |-> "none"]
    /\ events = <<>>
    /\ now = 0
    /\ tables = [t \in Tables |-> AVAILABLE]
    /\ procs = <<>>

RecNext ==
    \/ \E h \in Hotels, item \in Items, limit \in 0..MaxLimit :
         get_recommendations(h, item, limit)
    \/ \E item \in Items, is_available \in BOOLEAN : edit_menu_item(item, is_available)

RecSpec == RecInit /\ [][RecNext]_vars

\* ------------------------------- ScenarioSpec: three orders of one tenant
\* Pizza = 1, Cola = 2, Salad = 3: two orders {Pizza, Cola} and one {Pizza, Salad},
\* the lines in either order, each order completed once
ScenarioRequests == { <<1, 2>>, <<2, 1>>, <<1, 3>>, <<3, 1>> }

ItemSet(items) == { items[k] : k \in 1..Len(items) }

\* the number of orders placed so far with the item set of the request
PlacedLike(req) ==
    Cardinality({ o \in 1..Len(orders) : ItemSet(orders[o].items) = ItemSet(req) })

ScenarioPlace(req) ==
    /\ PlacedLike(req) < (IF ItemSet(req) = {1, 2} THEN 2 ELSE 1)
    /\ place_order("h1", req)
    /\ UNCHANGED requests

\* the kitchen moves an order on; once COMPLETED it is left alone
ScenarioStatus(o, new_status) ==
    /\ o \in 1..Len(orders)
    /\ orders[o].status # COMPLETED
    /\ update_order_status(o, new_status)
    /\ UNCHANGED requests

ScenarioRecommend(item, limit) == get_recommendations("h1", item, limit)

ScenarioNext ==
    \/ \E req \in ScenarioRequests : ScenarioPlace(req)
    \/ \E o \in 1..3, s \in {"PREPARING", COMPLETED} : ScenarioStatus(o, s)
    \/ \E item \in {1, 2, 3}, limit \in 1..MaxLimit : ScenarioRecommend(item, limit)

ScenarioSpec == Init /\ [][ScenarioNext]_vars

\* ------------------------------------------------------- the Event Tracker
\* Python's None for an item and for an order
NoItem == 0
NoOrder == 0
\* revenue=None; the revenues of the model are amounts in cents, never negative
NoRevenue == -1

IMPRESSION == "IMPRESSION"
CONVERSION == "CONVERSION"

\* a RecommendationEvent row as objects.create stores it; created_at is auto_now_add
NewEvent(h, source_item, recommended_item, event_type, order, revenue, at) ==
    [hotel |-> h, source_item |-> source_item, recommended_item |-> recommended_item,
     event_type |-> event_type, order |-> order, revenue |-> revenue, created_at |-> at]

\* mutant: the pair is looked up with the ids as they were passed
UpdatePairStatsAsGiven(store, h, item_a, item_b, stat_type) ==
    LET m == Matching(store, h, item_a, item_b) IN
    IF m = {} THEN store
    ELSE IF stat_type = "impression"
         THEN [store EXCEPT ![Min(m)].times_recommended = @ + 1]
         ELSE store

\* _update_pair_stats: swap to smaller id first, get the row, count the impression;
\* DoesNotExist is caught and nothing is written
UpdatePairStats(store, h, item_a, item_b, stat_type) ==
    LET a == IF item_a > item_b THEN item_b ELSE item_a
        b == IF item_a > item_b THEN item_a ELSE item_b
        m == Matching(store, h, a, b)
    IN IF m = {} THEN store
       ELSE IF stat_type = "impression"
            THEN [store EXCEPT ![Min(m)].times_recommended = @ + 1]
            ELSE store

\* mutant: the check of recommended_item is missing
TrackImpressionUnchecked(evts, store, h, source_item, recommended_item, at) ==
    [events |-> Append(evts, NewEvent(h, source_item, recommended_item, IMPRESSION,
                                      NoOrder, 0, at)),
     pairs |-> IF source_item # NoItem
               THEN UpdatePairStats(store, h, source_item, recommended_item, "impression")
               ELSE store,
     log |-> "none"]

\* track_impression of the engine of hotel h: the tables it leaves and its log line
TrackImpression(evts, store, h, source_item, recommended_item, at) ==
    IF recommended_item = NoItem
    THEN [events |-> evts, pairs |-> store, log |-> "warning"]
    ELSE [events |-> Append(evts, NewEvent(h, source_item, recommended_item, IMPRESSION,
                                           NoOrder, 0, at)),
          pairs |-> IF source_item # NoItem
                    THEN UpdatePairStats(store, h, source_item, recommended_item,
                                         "impression")
                    ELSE store,
          log |-> "none"]

\* OrderItem.total_price of line k of the order
TotalPrice(order, k) == order.quantity[k] * order.price_at_order[k]

\* order.items.filter(menu_item=recommended_item): the indexes of the lines
LinesFor(order, item) == { k \in 1..Len(order.items) : order.items[k] = item }

\* mutant: a revenue that is falsy (None or 0) is replaced by the line total
ConversionRevenueIfFalsy(order, recommended_item, revenue) ==
    IF revenue = NoRevenue \/ revenue = 0
    THEN IF LinesFor(order, recommended_item) # {}
         THEN TotalPrice(order, Min(LinesFor(order, recommended_item)))
         ELSE 0
    ELSE revenue

\* the revenue track_conversion works with: the argument, or when it is None the
\* total of the first line for the item, or Decimal("0.00") without such a line
ConversionRevenue(order, recommended_item, revenue) ==
    IF revenue = NoRevenue
    THEN IF LinesFor(order, recommended_item) # {}
         THEN TotalPrice(order, Min(LinesFor(order, recommended_item)))
         ELSE 0
    ELSE revenue

\* mutant: a conversion also counts as one more order with both items
ConvertPairsCounting(store, h, recommended_item, revenue) ==
    [i \in 1..Len(store) |->
        IF /\ store[i].hotel = h
           /\ (store[i].item_a = recommended_item \/ store[i].item_b = recommended_item)
        THEN [store[i] EXCEPT !.times_converted = @ + 1, !.revenue_generated = @ + revenue,
                              !.times_together = @ + 1]
        ELSE store[i]]

\* mutant: only the pairs that have the item as item_a are credited
ConvertPairsItemA(store, h, recommended_item, revenue) ==
    [i \in 1..Len(store) |->
        IF store[i].hotel = h /\ store[i].item_a = recommended_item
        THEN [store[i] EXCEPT !.times_converted = @ + 1, !.revenue_generated = @ + revenue]
        ELSE store[i]]

\* the loop of track_conversion over Q(item_a=item) | Q(item_b=item), hotel=hotel
ConvertPairs(store, h, recommended_item, revenue) ==
    [i \in 1..Len(store) |->
        IF /\ store[i].hotel = h
           /\ (store[i].item_a = recommended_item \/ store[i].item_b = recommended_item)
        THEN [store[i] EXCEPT !.times_converted = @ + 1, !.revenue_generated = @ + revenue]
        ELSE store[i]]

\* every reading of the clock is later than the one before
Reading == now + 1

track_impression(h, source_item, recommended_item) ==
    LET r == TrackImpression(events, pairs, h, source_item, recommended_item, Reading)
    IN /\ events' = r.events
       /\ pairs' = r.pairs
       /\ now' = IF r.events = events THEN now ELSE Reading
       /\ last' = [op |-> "track_impression", order |-> 0, log |-> r.log, hotel |-> h,
                   source_item |-> source_item, recommended_item |-> recommended_item]
       /\ UNCHANGED <<orders, available, requests, tables, procs>>

\* mutant: the conversion is written over the last event instead of added
track_conversion_overwriting(h, recommended_item, o, revenue) ==
    /\ o \in 1..Len(orders)
    /\ LET rev == ConversionRevenue(orders[o], recommended_item, revenue)
           e == NewEvent(h, NoItem, recommended_item, CONVERSION, o, rev, Reading)
       IN /\ events' = IF events = <<>> THEN <<e>>
                        ELSE [events EXCEPT ![Len(events)] = e]
          /\ pairs' = ConvertPairs(pairs, h, recommended_item, rev)
    /\ now' = Reading
    /\ last' = [op |-> "track_conversion", order |-> o, log |-> "none", hotel |-> h,
                recommended_item |-> recommended_item, revenue |-> revenue]
    /\ UNCHANGED <<orders, available, requests, tables, procs>>

track_conversion(h, recommended_item, o, revenue) ==
    /\ o \in 1..Len(orders)
    /\ LET rev == ConversionRevenue(orders[o], recommended_item, revenue)
       IN /\ events' = Append(events, NewEvent(h, NoItem, recommended_item, CONVERSION,
                                               o, rev, Reading))
          /\ pairs' = ConvertPairs(pairs, h, recommended_item, rev)
    /\ now' = Reading
    /\ last' = [op |-> "track_conversion", order |-> o, log |-> "none", hotel |-> h,
                recommended_item |-> recommended_item, revenue |-> revenue]
    /\ UNCHANGED <<orders, available, requests, tables, procs>>

\* event_type.upper()
Upper(event_type) ==
    CASE event_type = "impression" -> "IMPRESSION"
      [] event_type = "click" -> "CLICK"
      [] event_type = "conversion" -> "CONVERSION"
      [] OTHER -> event_type

\* the view track_recommendation_event: it stores the event the client reports and
\* touches no pair row; req = <<event_type, hotel, source id, recommended id, revenue>>
track_recommendation_event(req) ==
    /\ IF req[1] = "" \/ req[4] = NoItem
       THEN /\ UNCHANGED <<events, now>>
            /\ last' = [op |-> "track_recommendation_event", order |-> 0, log |-> "none",
                        response |-> BadRequest]
       ELSE /\ events' = Append(events, NewEvent(req[2], req[3], req[4], Upper(req[1]),
                                                 NoOrder, req[5], Reading))
            /\ now' = Reading
            /\ last' = [op |-> "track_recommendation_event", order |-> 0, log |-> "none",
                        response |-> Ok]
    /\ UNCHANGED <<orders, pairs, available, requests, tables, procs>>

\* time passes
Tick ==
    /\ now' = now + 1
    /\ last' = [op |-> "tick", order |-> 0, log |-> "none"]
    /\ UNCHANGED <<orders, pairs, available, requests, events, tables, procs>>

\* the loop of the view over the returned recommendations: one track_impression each,
\* every event with a later clock reading
RECURSIVE TrackImpressions(_, _, _, _, _, _)
TrackImpressions(evts, store, h, source_item, items, at) ==
    IF items = <<>> THEN [events |-> evts, pairs |-> store]
    ELSE LET r == TrackImpression(evts, store, h, source_item, Head(items), at)
         IN TrackImpressions(r.events, r.pairs, h, source_item, Tail(items), at + 1)

\* limit=3 of the view get_item_recommendations
ViewLimit == 3

\* the "item" of each returned record
RecItems(recs) == [k \in 1..Len(recs) |-> recs[k].item]

\* mutant: an impression is tracked for every row of the slice, unavailable or not
ItemRecommendationsTrackSlice(evts, store, avail, h, item, ranked, at) ==
    LET recs == Recommendations(store, avail, h, item, ViewLimit, ranked)
        top == Limited(ranked, ViewLimit)
        r == TrackImpressions(evts, store, h, item,
                              [k \in 1..Len(top) |-> OtherItem(store[top[k]], item)], at)
    IN [recs |-> recs, events |-> r.events, pairs |-> r.pairs]

\* the body of get_item_recommendations for an available item of hotel h: the
\* recommendations of the engine, then track_impression for each of them
ItemRecommendations(evts, store, avail, h, item, ranked, at) ==
    LET recs == Recommendations(store, avail, h, item, ViewLimit, ranked)
        r == TrackImpressions(evts, store, h, item, RecItems(recs), at)
    IN [recs |-> recs, events |-> r.events, pairs |-> r.pairs]

\* the view get_item_recommendations for item `item` of hotel h; the Http404 of an
\* unavailable item is caught by the view's own except and answered with 500
get_item_recommendations(h, item) ==
    /\ IF ~available[item]
       THEN /\ UNCHANGED <<events, pairs, now>>
            /\ last' = [op |-> "get_item_recommendations", order |-> 0, log |-> "error",
                        hotel |-> h, item |-> item, recs |-> <<>>,
                        response |-> ServerError]
       ELSE \E ranked \in Rankings(pairs, h, item) :
              LET r == ItemRecommendations(events, pairs, available, h, item, ranked,
                                           Reading)
              IN /\ events' = r.events
                 /\ pairs' = r.pairs
                 /\ now' = now + Len(r.recs)
                 /\ last' = [op |-> "get_item_recommendations", order |-> 0,
                             log |-> "none", hotel |-> h, item |-> item,
                             recs |-> r.recs, response |-> Ok]
    /\ UNCHANGED <<orders, available, requests, tables, procs>>

\* ------------------------- ViewSpec: the recommendations endpoint of an item
\* impressions stored in one behaviour of ViewSpec
MaxImpressions == 3

\* the menu items of ViewSpec: item 5 gives item 2 a fourth pair
ViewItems == Items \cup {5}

\* hotel h1 holds up to four pairs of item 2, hotel h2 one pair of its own
ViewStores ==
    { r12 \o r23 \o r24 \o r25 \o
      <<[NewPair("h2", 1, 2) EXCEPT !.times_together = MaxTimes,
                                   !.confidence = Frac(MaxTimes, 4)]>> :
        r12 \in RowChoices("h1", 1, 2, {MinTimesTogether, MaxTimes}, {4}),
        r23 \in RowChoices("h1", 2, 3, {MinTimesTogether}, {4, 20}),
        r24 \in RowChoices("h1", 2, 4, {MaxTimes}, {6}),
        r25 \in RowChoices("h1", 2, 5, {MaxTimes}, {4}) }

ViewInit ==
    /\ orders = <<>>
    /\ pairs \in ViewStores
    /\ available = [i \in ViewItems |-> TRUE]
    /\ requests = 0
    /\ last = [op |-> "none", order |-> 0, log |-> "none"]
    /\ events = <<>>
    /\ now = 0
    /\ tables = [t \in Tables |-> AVAILABLE]
    /\ procs = <<>>

ViewNext ==
    \/ \E h \in Hotels, item \in {1, 2} :
         get_item_recommendations(h, item) /\ Len(events') <= MaxImpressions
    \/ \E item \in {2, 3}, is_available \in BOOLEAN : edit_menu_item(item, is_available)

ViewSpec == ViewInit /\ [][ViewNext]_vars

\* ------------------------------------- TrackSpec: tracking over a Pair Store
\* events stored in one behaviour of TrackSpec
MaxEvents == 3

\* order 1, of hotel h1: Pizza (1) once at 10.00 and Cola (2) twice at 7.50
TrackOrders ==
    << [hotel |-> "h1", status |-> COMPLETED, items |-> <<1, 2>>,
        quantity |-> <<1, 2>>, price_at_order |-> <<1000, 750>>, table |-> NoTable] >>

\* hotel h1 holds pairs (1,2), (2,3) and (1,3), hotel h2 holds pair (1,2)
TrackStore ==
    << [NewPair("h1", 1, 2) EXCEPT !.times_together = 2, !.confidence = Frac(2, 2)],
       [NewPair("h1", 2, 3) EXCEPT !.confidence = Frac(1, 2)],
       [NewPair("h1", 1, 3) EXCEPT !.confidence = Frac(1, 2)],
       [NewPair("h2", 1, 2) EXCEPT !.confidence = Frac(1, 1)] >>

TrackInit ==
    /\ orders = TrackOrders
    /\ pairs = TrackStore
    /\ available = [i \in Items |-> TRUE]
    /\ requests = 0
    /\ last = [op |-> "none", order |-> 0, log |-> "none"]
    /\ events = <<>>
    /\ now = 0
    /\ tables = [t \in Tables |-> AVAILABLE]
    /\ procs = <<>>

\* one more event fits the behaviour
Room(max) == Len(events) < max

TrackNext ==
    \/ \E h \in Hotels, source_item \in {NoItem, 1, 3}, recommended_item \in {NoItem, 2} :
         Room(MaxEvents) /\ track_impression(h, source_item, recommended_item)
    \/ \E h \in Hotels, recommended_item \in {2, 4}, revenue \in {NoRevenue, 0, 500} :
         Room(MaxEvents) /\ track_conversion(h, recommended_item, 1, revenue)

TrackSpec == TrackInit /\ [][TrackNext]_vars

\* -------------------------------------------------- the Analytics Aggregator
\* round(n / d, 0) for n >= 0, d > 0: the nearest integer, a tie going to the even one
RoundHalfEven(n, d) ==
    LET q == n \div d
        r == n % d
    IN IF 2 * r > d \/ (2 * r = d /\ q % 2 = 1) THEN q + 1 ELSE q

\* Sum("revenue") over the rows of the sequence that pass the filter; 0 stands
\* for the None of an empty aggregate, which `or Decimal("0.00")` turns into 0
RECURSIVE SumRevenue(_, _, _, _)
SumRevenue(evts, h, start, event_type) ==
    IF evts = <<>> THEN 0
    ELSE (IF /\ Head(evts).hotel = h
             /\ Head(evts).created_at >= start
             /\ Head(evts).event_type = event_type
          THEN Head(evts).revenue ELSE 0)
         + SumRevenue(Tail(evts), h, start, event_type)

\* .count() / Count("id") of the rows that pass the filter
CountEvents(evts, h, start, event_type) ==
    Cardinality({ i \in 1..Len(evts) :
        /\ evts[i].hotel = h
        /\ evts[i].created_at >= start
        /\ evts[i].event_type = event_type })

\* mutant: the created_at filter is missing
PerformanceSummaryAllTime(evts, h, days, at) ==
    LET start == 0
        total_conversions == CountEvents(evts, h, start, CONVERSION)
        impressions == CountEvents(evts, h, start, IMPRESSION)
    IN [total_revenue |-> SumRevenue(evts, h, start, CONVERSION),
        total_conversions |-> total_conversions,
        total_impressions |-> impressions,
        conversion_rate |-> IF impressions > 0
                            THEN RoundHalfEven(total_conversions * 100 * 100, impressions)
                            ELSE 0,
        days |-> days]

\* get_performance_summary(days) of RecommendationAnalytics(h), the clock reading at;
\* conversion_rate = round(conversions / impressions * 100, 2), in hundredths
PerformanceSummary(evts, h, days, at) ==
    LET start == at - days
        total_conversions == CountEvents(evts, h, start, CONVERSION)
        impressions == CountEvents(evts, h, start, IMPRESSION)
    IN [total_revenue |-> SumRevenue(evts, h, start, CONVERSION),
        total_conversions |-> total_conversions,
        total_impressions |-> impressions,
        conversion_rate |-> IF impressions > 0
                            THEN RoundHalfEven(total_conversions * 100 * 100, impressions)
                            ELSE 0,
        days |-> days]

get_performance_summary(h, days) ==
    /\ last' = [op |-> "get_performance_summary", order |-> 0, log |-> "none",
                hotel |-> h, days |-> days, at |-> Reading,
                summary |-> PerformanceSummary(events, h, days, Reading)]
    /\ now' = Reading
    /\ UNCHANGED <<orders, pairs, available, requests, events, tables, procs>>

\* ------------------------------------ SummarySpec: summaries of an event log
\* events stored in one behaviour of SummarySpec
MaxLog == 4
\* the last clock reading of a behaviour of SummarySpec
MaxClock == 6
\* the widest window asked for
MaxDays == 4

\* bodies sent to track_recommendation_event: a click, and one without event_type
TrackEventRequests ==
    { <<"click", "h1", NoItem, 2, 0>>, <<"", "h1", NoItem, 2, 0>> }

\* the clock has readings left
InTime == now < MaxClock

SummaryNext ==
    \/ \E h \in Hotels : Room(MaxLog) /\ InTime /\ track_impression(h, NoItem, 2)
    \/ \E revenue \in {NoRevenue, 500} :
         Room(MaxLog) /\ InTime /\ track_conversion("h1", 2, 1, revenue)
    \/ \E req \in TrackEventRequests :
         Room(MaxLog) /\ InTime /\ track_recommendation_event(req)
    \/ InTime /\ Tick
    \/ \E h \in Hotels, days \in 0..MaxDays : InTime /\ get_performance_summary(h, days)

SummarySpec == TrackInit /\ [][SummaryNext]_vars

\* -------------------------------------------------- CrossNetworkInsights
\* timedelta(days=30) of get_network_benchmarks
NetworkDays == 30
\* .filter(total_orders__gte=5) of get_cross_network_trending_patterns
MinNetworkOrders == 5

\* get_network_size: active restaurants, COMPLETED orders and pair rows of all hotels
NetworkSize(ords, store) ==
    [total_restaurants |-> Cardinality(Hotels),
     total_orders |-> Cardinality({ o \in 1..Len(ords) : ords[o].status = COMPLETED }),
     total_pairs |-> Len(store)]

\* the events of every hotel created at or after start, of one type
NetworkEvents(evts, start, event_type) ==
    { i \in 1..Len(evts) : evts[i].created_at >= start /\ evts[i].event_type = event_type }

\* the recommendation part of get_network_benchmarks: the counts over the events of
\* every hotel in the last 30 days and round(conversions / impressions * 100, 2)
NetworkBenchmarks(evts, at) ==
    LET total_impressions == Cardinality(NetworkEvents(evts, at - NetworkDays, IMPRESSION))
        total_conversions == Cardinality(NetworkEvents(evts, at - NetworkDays, CONVERSION))
    IN [total_impressions |-> total_impressions,
        total_conversions |-> total_conversions,
        recommendation_conversion_rate |->
            IF total_impressions > 0
            THEN RoundHalfEven(total_conversions * 100 * 100, total_impressions)
            ELSE 0]

\* Sum("times_together") over the rows of every hotel for one pair of items
RECURSIVE NetworkTotal(_, _)
NetworkTotal(store, key) ==
    IF store = <<>> THEN 0
    ELSE (IF <<Head(store).item_a, Head(store).item_b>> = key
          THEN Head(store).times_together ELSE 0)
         + NetworkTotal(Tail(store), key)

\* get_cross_network_trending_patterns: the pairs of items with at least 5 orders
\* over the network, with their totals
TrendingPatterns(store) ==
    { [item_a |-> key[1], item_b |-> key[2],
       total_orders |-> NetworkTotal(store, key),
       restaurant_count |->
           Cardinality({ store[i].hotel : i \in { j \in 1..Len(store) :
               <<store[j].item_a, store[j].item_b>> = key } })] :
      key \in { k \in { <<store[i].item_a, store[i].item_b>> : i \in 1..Len(store) } :
                  NetworkTotal(store, k) >= MinNetworkOrders } }

get_network_size ==
    /\ last' = [op |-> "get_network_size", order |-> 0, log |-> "none",
                answer |-> NetworkSize(orders, pairs)]
    /\ UNCHANGED <<orders, pairs, available, requests, events, now, tables, procs>>

get_network_benchmarks ==
    /\ last' = [op |-> "get_network_benchmarks", order |-> 0, log |-> "none",
                answer |-> NetworkBenchmarks(events, Reading)]
    /\ now' = Reading
    /\ UNCHANGED <<orders, pairs, available, requests, events, tables, procs>>

get_cross_network_trending_patterns ==
    /\ last' = [op |-> "get_cross_network_trending_patterns", order |-> 0,
                log |-> "none", answer |-> TrendingPatterns(pairs)]
    /\ UNCHANGED <<orders, pairs, available, requests, events, now, tables, procs>>

\* ------------------------------------------- _update_confidence_scores alone
\* the run about to start repeats the one that ran last
RepeatedScores(h) == last.op = "update_confidence_scores" /\ last.hotel = h

\* a direct run of _update_confidence_scores of the engine of hotel h; last.calls
\* counts the runs made in a row, last.before keeps the Pair Store the first of them
\* started from and last.first the one it left
update_confidence_scores(h) ==
    /\ pairs' = UpdateConfidenceScores(pairs, orders, h)
    /\ last' = [op |-> "update_confidence_scores", order |-> 0, log |-> "none",
                hotel |-> h,
                calls |-> IF RepeatedScores(h) THEN last.calls + 1 ELSE 1,
                before |-> IF RepeatedScores(h) THEN last.before ELSE pairs,
                first |-> IF RepeatedScores(h) THEN last.first ELSE pairs']
    /\ UNCHANGED <<orders, available, requests, events, now, tables, procs>>

\* ------------------ EngineSpec: every operation of the engine, two tenants
\* events stored in one behaviour of EngineSpec
MaxTracked == 2
\* the last clock reading of a behaviour of EngineSpec
MaxReading == 3
\* runs of the confidence pass made in a row
MaxRuns == 2

\* one order of each hotel, both with Pizza (1) and Cola (2)
EngineOrders ==
    << [hotel |-> "h1", status |-> PENDING, items |-> <<1, 2>>,
        quantity |-> <<1, 2>>, price_at_order |-> <<1000, 750>>, table |-> NoTable],
       [hotel |-> "h2", status |-> PENDING, items |-> <<2, 1>>,
        quantity |-> <<1, 1>>, price_at_order |-> <<700, 900>>, table |-> NoTable] >>

EngineInit ==
    /\ orders = EngineOrders
    /\ pairs = <<>>
    /\ available = [i \in Items |-> TRUE]
    /\ requests = 0
    /\ last = [op |-> "none", order |-> 0, log |-> "none"]
    /\ events = <<>>
    /\ now = 0
    /\ tables = [t \in Tables |-> AVAILABLE]
    /\ procs = <<>>

\* the clock has readings left in EngineSpec
EngineTime == now < MaxReading

EngineStatus(o, new_status) ==
    /\ update_order_status(o, new_status)
    /\ Capped(pairs')
    /\ UNCHANGED requests

EngineTrack ==
    \/ \E h \in Hotels, recommended_item \in {NoItem, 2} :
         track_impression(h, 1, recommended_item)
    \/ \E h \in Hotels, o \in 1..Len(EngineOrders) :
         track_conversion(h, 2, o, NoRevenue)
    \/ \E req \in TrackEventRequests : track_recommendation_event(req)

EngineScores(h) ==
    /\ ~(RepeatedScores(h) /\ last.calls >= MaxRuns)
    /\ update_confidence_scores(h)

EngineNext ==
    \/ \E o \in 1..Len(EngineOrders), s \in {COMPLETED, CANCELLED} : EngineStatus(o, s)
    \/ Room(MaxTracked) /\ EngineTime /\ EngineTrack
    \/ \E h \in Hotels : EngineTime /\ get_performance_summary(h, MaxDays)
    \/ get_network_size
    \/ EngineTime /\ get_network_benchmarks
    \/ get_cross_network_trending_patterns
    \/ \E h \in Hotels : EngineScores(h)

EngineSpec == EngineInit /\ [][EngineNext]_vars

\* --------------------------- ConcSpec: two completions handled concurrently
\* Request p (a worker running update_order_status) completes order p. Its steps
\* are the statements of the handler that touch the database: order.save(), the
\* SELECT and the INSERT of get_or_create, pair.save() and the confidence pass.
\* procs[p] = [pc, todo, row, read, before, written]: the statement it is at, the
\* pairs it has still to record, the row it has loaded with the times_together it
\* read, the Pair Store it started from and the number of rows it has written.
Workers == {1, 2}

\* the orders of hotel h1 the workers complete, both with Pizza (1) and Cola (2)
ConcOrders ==
    << [hotel |-> "h1", status |-> PENDING, items |-> <<1, 2>>, table |-> NoTable],
       [hotel |-> "h1", status |-> PENDING, items |-> <<2, 1, 3>>, table |-> NoTable] >>

\* an order with Pizza and Cola completed earlier
ConcEarlier ==
    [hotel |-> "h1", status |-> COMPLETED, items |-> <<1, 2>>, table |-> NoTable]

Idle == [pc |-> "idle", todo |-> <<>>, row |-> 0, read |-> 0, before |-> <<>>, written |-> 0]

ConcInit ==
    /\ \E earlier \in BOOLEAN :
         /\ orders = IF earlier THEN ConcOrders \o <<ConcEarlier>> ELSE ConcOrders
         /\ pairs = IF earlier
                    THEN <<[NewPair("h1", 1, 2) EXCEPT !.confidence = Frac(1, 1)]>>
                    ELSE <<>>
    /\ available = [i \in Items |-> TRUE]
    /\ requests = 0
    /\ last = [op |-> "none", order |-> 0, log |-> "none"]
    /\ events = <<>>
    /\ now = 0
    /\ tables = [t \in Tables |-> AVAILABLE]
    /\ procs = [p \in Workers |-> Idle]

\* what a worker's step leaves alone
ConcFrame ==
    /\ last' = [op |-> "worker", order |-> 0, log |-> "none"]
    /\ UNCHANGED <<available, requests, events, now, tables>>

\* the statement after a pair is dealt with: the next pair, or the confidence pass
AfterPair(todo) == IF Tail(todo) = <<>> THEN "confidence" ELSE "get"

\* order.status = COMPLETED; order.save(); the receiver enters update_pairs_from_order
\* and reads the item ids
ConcSave(p) ==
    /\ procs[p].pc = "idle"
    /\ orders' = [orders EXCEPT ![p].status = COMPLETED]
    /\ procs' = [procs EXCEPT ![p] = [Idle EXCEPT !.pc = "get",
                                                  !.todo = Combinations(orders[p].items),
                                                  !.before = pairs]]
    /\ UNCHANGED pairs
    /\ ConcFrame

\* get_or_create, the SELECT: the row is loaded with its times_together, or is missing
ConcGet(p) ==
    /\ procs[p].pc = "get"
    /\ LET c == Canonical(Head(procs[p].todo)[1], Head(procs[p].todo)[2])
           m == Matching(pairs, orders[p].hotel, c[1], c[2])
       IN procs' = IF m = {}
                   THEN [procs EXCEPT ![p].pc = "create"]
                   ELSE [procs EXCEPT ![p].pc = "save", ![p].row = Min(m),
                                      ![p].read = pairs[Min(m)].times_together]
    /\ UNCHANGED <<orders, pairs>>
    /\ ConcFrame

\* get_or_create, the INSERT: the row is created; when another request has created
\* it since the SELECT the insert fails on the unique key and the row is loaded
ConcCreate(p) ==
    /\ procs[p].pc = "create"
    /\ LET c == Canonical(Head(procs[p].todo)[1], Head(procs[p].todo)[2])
           m == Matching(pairs, orders[p].hotel, c[1], c[2])
       IN IF m = {}
          THEN /\ pairs' = Append(pairs, NewPair(orders[p].hotel, c[1], c[2]))
               /\ procs' = [procs EXCEPT ![p].pc = AfterPair(procs[p].todo),
                                         ![p].todo = Tail(procs[p].todo),
                                         ![p].written = @ + 1]
          ELSE /\ pairs' = pairs
               /\ procs' = [procs EXCEPT ![p].pc = "save", ![p].row = Min(m),
                                         ![p].read = pairs[Min(m)].times_together]
    /\ UNCHANGED orders
    /\ ConcFrame

\* pair.times_together += 1; pair.save(update_fields=["times_together", ...]): the
\* value that was read, plus one, is written
ConcIncrement(p) ==
    /\ procs[p].pc = "save"
    /\ pairs' = [pairs EXCEPT ![procs[p].row].times_together = procs[p].read + 1]
    /\ procs' = [procs EXCEPT ![p].pc = AfterPair(procs[p].todo),
                              ![p].todo = Tail(procs[p].todo),
                              ![p].written = @ + 1]
    /\ UNCHANGED orders
    /\ ConcFrame

\* _update_confidence_scores, taken as one step
ConcConfidence(p) ==
    /\ procs[p].pc = "confidence"
    /\ pairs' = UpdateConfidenceScores(pairs, orders, orders[p].hotel)
    /\ procs' = [procs EXCEPT ![p].pc = "done"]
    /\ UNCHANGED orders
    /\ ConcFrame

\* the database raises in the statement the worker is at: the receiver logs it and
\* the request ends, with no transaction to roll back what it has written
ConcRaise(p) ==
    /\ procs[p].pc \in {"get", "create", "save", "confidence"}
    /\ procs' = [procs EXCEPT ![p].pc = "failed"]
    /\ UNCHANGED <<orders, pairs>>
    /\ ConcFrame

\* a customer opens Pizza or Cola while the workers run
ConcRecommend(item) == get_recommendations("h1", item, MaxLimit)

ConcNext ==
    \/ \E p \in Workers : ConcSave(p)
    \/ \E p \in Workers : ConcGet(p)
    \/ \E p \in Workers : ConcCreate(p)
    \/ \E p \in Workers : ConcIncrement(p)
    \/ \E p \in Workers : ConcConfidence(p)
    \/ \E p \in Workers : ConcRaise(p)
    \/ \E item \in {1, 2} : ConcRecommend(item)

ConcSpec == ConcInit /\ [][ConcNext]_vars

\* ------------------------------------------------------ claim vocabulary
\* the unordered pairs of an item list, smaller id first
PairSet(items) ==
    { IF items[i] > items[j] THEN <<items[j], items[i]>> ELSE <<items[i], items[j]>> :
        <<i, j>> \in { p \in (1..Len(items)) \X (1..Len(items)) : p[1] < p[2] } }

Key(row) == <<row.item_a, row.item_b>>

Choose2(n) == (n * (n - 1)) \div 2

\* the rows of post that are new or whose times_together differs from pre
Touched(pre, post) ==
    { i \in 1..Len(post) : i > Len(pre) \/ post[i].times_together # pre[i].times_together }

\* C2's relation between the Pair Store before and after one update for hotel h
CountedOnce(h, items, pre, post) ==
    /\ Len(post) >= Len(pre)
    /\ Cardinality(PairSet(items)) = Choose2(Len(items))
    /\ Cardinality(Touched(pre, post)) = Choose2(Len(items))
    /\ \A i \in 1..Len(pre) :
         /\ post[i].hotel = pre[i].hotel /\ Key(post[i]) = Key(pre[i])
         /\ post[i].times_together =
              IF pre[i].hotel = h /\ Key(pre[i]) \in PairSet(items)
              THEN pre[i].times_together + 1
              ELSE pre[i].times_together
    /\ \A i \in (Len(pre) + 1)..Len(post) :
         /\ post[i].hotel = h /\ Key(post[i]) \in PairSet(items)
         /\ post[i].times_together = 1
         /\ \A j \in 1..Len(pre) : ~(pre[j].hotel = h /\ Key(pre[j]) = Key(post[i]))
    /\ \A k \in PairSet(items) : \E i \in 1..Len(post) : post[i].hotel = h /\ Key(post[i]) = k

\* the COMPLETED orders of hotel h that contain the item
CompletedWith(ords, h, item) ==
    { o \in 1..Len(ords) :
        /\ ords[o].hotel = h /\ ords[o].status = COMPLETED
        /\ item \in { ords[o].items[k] : k \in 1..Len(ords[o].items) } }

\* every row of hotel h whose item_a is in a COMPLETED order has
\* confidence = times_together / (number of those orders)
Recomputed(store, ords, h) ==
    \A i \in 1..Len(store) :
        LET n == Cardinality(CompletedWith(ords, h, store[i].item_a)) IN
        (store[i].hotel = h /\ n > 0)
        => store[i].confidence.num * n = store[i].times_together * store[i].confidence.den

\* -------------------------------------------------------------------- C1
\* C1: at most one ItemPairFrequency row per hotel and unordered pair, and every
\* row has item_a < item_b (no mirrored row, no row pairing an item with itself).
PairSymmetry ==
    /\ \A i \in 1..Len(pairs) : pairs[i].item_a < pairs[i].item_b
    /\ \A i, j \in 1..Len(pairs) :
         (pairs[i].hotel = pairs[j].hotel
            /\ {pairs[i].item_a, pairs[i].item_b} = {pairs[j].item_a, pairs[j].item_b})
         => i = j

\* an order listing its items larger id first was completed twice over
PairSymmetryWitness ==
    /\ \E o \in 1..Len(orders) : orders[o].items = <<2, 1>> /\ orders[o].status = COMPLETED
    /\ \E i \in 1..Len(pairs) : pairs[i].times_together = 2 /\ Key(pairs[i]) = <<1, 2>>
    /\ \E i \in 1..Len(pairs) : Key(pairs[i]) = <<2, 3>>

\* -------------------------------------------------------------------- C2
\* C2: one update for a COMPLETED order with N >= 2 distinct items touches exactly
\* C(N,2) rows: an existing row of one of its pairs gains 1, a missing one is
\* created with times_together = 1, every other row keeps its times_together.
CountCorrectness ==
    [][last'.log = "updated"
         => CountedOnce(orders'[last'.order].hotel, orders'[last'.order].items,
                        pairs, pairs')]_vars

\* a three-item order was folded into a store that already held pair (1,2)
CountCorrectnessWitness ==
    /\ last.log = "updated"
    /\ Len(pairs) = 3
    /\ pairs[1].hotel = "h1" /\ Key(pairs[1]) = <<1, 2>> /\ pairs[1].times_together = 2
    /\ pairs[2].hotel = "h1" /\ pairs[2].times_together = 1
    /\ pairs[3].hotel = "h1" /\ pairs[3].times_together = 1

\* -------------------------------------------------------------------- C3
\* C3: an update for a COMPLETED order with 0 or 1 items leaves the Pair Store as
\* it was: no row created, no times_together and no confidence changed.
FewItemsUntouched ==
    [][last'.log = "skipped_items" => pairs' = pairs]_vars

\* the updater skipped a one-item order whose item heads a stored pair
FewItemsUntouchedWitness ==
    /\ last.log = "skipped_items"
    /\ \E o \in 1..Len(orders) :
         /\ orders[o].status = COMPLETED /\ Len(orders[o].items) = 1
         /\ \E i \in 1..Len(pairs) :
              pairs[i].hotel = orders[o].hotel /\ pairs[i].item_a = orders[o].items[1]

\* -------------------------------------------------------------------- C4
\* C4: update_pairs_from_order on an order that is not COMPLETED changes nothing in
\* the Pair Store, whatever its item count, and saving an order in such a status
\* runs no pair update.
NotCompletedIgnored ==
    [][(\/ last'.log = "skipped_status"
         \/ (last'.op \in {"place_order", "update_order_status"}
               /\ orders'[last'.order].status # COMPLETED))
        => pairs' = pairs]_vars

\* the updater was called on a three-item order that is not COMPLETED
NotCompletedIgnoredWitness ==
    /\ last.op = "update_pairs_from_order"
    /\ last.log = "skipped_status"
    /\ pairs # <<>>
    /\ \E o \in 1..Len(orders) :
         orders[o].status = CANCELLED /\ Len(orders[o].items) = 3

\* -------------------------------------------------------------------- C5
\* C5: every pair row has 0 <= confidence <= 1.
ConfidenceBound ==
    \A i \in 1..Len(pairs) :
        /\ pairs[i].confidence.num >= 0
        /\ pairs[i].confidence.num <= pairs[i].confidence.den

\* -------------------------------------------------------------------- C6
\* C6 as stated: after the handling of any order completion, whatever the order's
\* item count, every row of the tenant whose item_a is in a COMPLETED order has
\* confidence = times_together / (COMPLETED orders of the tenant with item_a).
RecomputedOnEveryCompletion ==
    [][(last'.op = "update_order_status" /\ last'.log \in {"skipped_items", "updated"})
        => Recomputed(pairs', orders', orders'[last'.order].hotel)]_vars

\* C6 amended: the same, after the completion of an order with at least 2 items.
RecomputedOnPairCompletion ==
    [][last'.log = "updated"
        => Recomputed(pairs', orders', orders'[last'.order].hotel)]_vars

\* completing <<2, 1>> halved the confidence of a pair that order does not hold
RecomputedOnPairCompletionWitness ==
    /\ last.log = "updated"
    /\ Len(orders) = 2
    /\ orders[1].items = <<3, 1, 2>> /\ orders[1].status = COMPLETED
    /\ orders[2].items = <<2, 1>> /\ orders[2].status = COMPLETED
    /\ orders[1].hotel = "h1" /\ orders[2].hotel = "h1"
    /\ \E i \in 1..Len(pairs) :
         /\ Key(pairs[i]) = <<1, 3>> /\ pairs[i].times_together = 1
         /\ pairs[i].confidence = [num |-> 1, den |-> 2]

\* ------------------------------------------------------------- C7 .. C9
IsQuery == last.op = "get_recommendations"

\* the rows of the store that pass the documented thresholds for the query
QualifyingRows ==
    { i \in 1..Len(pairs) :
        /\ pairs[i].hotel = last.hotel
        /\ last.item \in {pairs[i].item_a, pairs[i].item_b}
        /\ pairs[i].confidence.num * PctScale >= MinConfidencePct * pairs[i].confidence.den
        /\ pairs[i].times_together >= MinTimesTogether }

\* the item of row i that is not the query item
Partner(i) == CHOOSE x \in {pairs[i].item_a, pairs[i].item_b} : x # last.item

\* row i is strictly ahead of row j in (confidence, times_together) order
Ahead(i, j) ==
    \/ pairs[i].confidence.num * pairs[j].confidence.den
         > pairs[j].confidence.num * pairs[i].confidence.den
    \/ /\ pairs[i].confidence = pairs[j].confidence
       /\ pairs[i].times_together > pairs[j].times_together

\* C7: every record returned by get_recommendations comes from a pair of the
\* engine's hotel that contains the query item and has confidence >= 0.15 and
\* times_together >= 2, and the recommended item is available.
RecommendationFiltering ==
    IsQuery =>
      \A k \in 1..Len(last.recs) :
        \E i \in QualifyingRows :
          /\ last.recs[k].pair = pairs[i]
          /\ last.recs[k].item = Partner(i)
          /\ available[last.recs[k].item]

\* a query returned the pair that sits exactly on 0.15 while the store held, for
\* the same item, a pair seen once, a pair below 0.15 and another hotel's pair
RecommendationFilteringWitness ==
    /\ IsQuery /\ last.hotel = "h1" /\ last.item = 2 /\ last.limit = MaxLimit
    /\ Len(last.recs) = 1
    /\ last.recs[1].pair.confidence = [num |-> 3, den |-> 20]
    /\ \E i \in 1..Len(pairs) :
         pairs[i].hotel = "h1" /\ pairs[i].item_b = 2 /\ pairs[i].times_together = 1
    /\ \E i \in 1..Len(pairs) :
         pairs[i].hotel = "h1" /\ pairs[i].item_a = 2 /\ available[pairs[i].item_b]
           /\ pairs[i].confidence = [num |-> 1, den |-> 10]

\* C8: consecutive results are non-increasing in (confidence, times_together),
\* also when unavailable items were dropped in between.
RankingOrder ==
    IsQuery =>
      \A k \in 1..(Len(last.recs) - 1) :
        LET r1 == last.recs[k].pair
            r2 == last.recs[k + 1].pair
        IN \/ r1.confidence.num * r2.confidence.den > r2.confidence.num * r1.confidence.den
           \/ /\ r1.confidence = r2.confidence
              /\ r1.times_together >= r2.times_together

\* two results tie on confidence and differ in times_together, and a third
\* qualifying pair was dropped as unavailable
RankingOrderWitness ==
    /\ IsQuery /\ Len(last.recs) = 2
    /\ last.recs[1].pair.confidence = last.recs[2].pair.confidence
    /\ last.recs[1].pair.times_together > last.recs[2].pair.times_together
    /\ Cardinality(QualifyingRows) = 3
    /\ \E i \in QualifyingRows : ~available[Partner(i)]

\* C9: at most limit records; the records are the available members of a top
\* slice of the qualifying pairs: a set of min(limit, #qualifying) qualifying
\* rows that no qualifying row outside it is strictly ahead of. No row below
\* the slice is returned, whatever was dropped from it.
NoBackfill ==
    IsQuery =>
      /\ Len(last.recs) <= last.limit
      /\ \E top \in SUBSET QualifyingRows :
           /\ Cardinality(top) =
                IF last.limit < Cardinality(QualifyingRows)
                THEN last.limit ELSE Cardinality(QualifyingRows)
           /\ \A i \in top, j \in QualifyingRows \ top : ~Ahead(j, i)
           /\ { last.recs[k].pair : k \in 1..Len(last.recs) }
                = { pairs[i] : i \in { t \in top : available[Partner(t)] } }
           /\ Len(last.recs) = Cardinality({ t \in top : available[Partner(t)] })

\* limit 1, the best pair is unavailable: nothing is returned although an
\* available qualifying pair ranks right behind it
NoBackfillWitness ==
    /\ IsQuery /\ last.limit = 1 /\ last.recs = <<>>
    /\ \E i, j \in QualifyingRows :
         /\ Ahead(i, j)
         /\ ~available[Partner(i)]
         /\ available[Partner(j)]

\* ------------------------------------------------------------------- C10
ScenarioDone ==
    /\ Len(orders) = 3
    /\ \A o \in 1..3 : orders[o].status = COMPLETED

\* C10: after Order1 {Pizza, Cola}, Order2 {Pizza, Cola} and Order3 {Pizza, Salad}
\* have each been completed once, the store holds exactly pair (1,2) with
\* times_together 2 and confidence 2/3 and pair (1,3) with times_together 1 and
\* confidence 1/3, and get_recommendations(Pizza, 3) returns one record, for Cola.
ScenarioOutcome ==
    ScenarioDone =>
      /\ Len(pairs) = 2
      /\ \E i \in 1..2 :
           /\ pairs[i].hotel = "h1" /\ pairs[i].item_a = 1 /\ pairs[i].item_b = 2
           /\ pairs[i].times_together = 2
           /\ pairs[i].confidence = [num |-> 2, den |-> 3]
      /\ \E i \in 1..2 :
           /\ pairs[i].hotel = "h1" /\ pairs[i].item_a = 1 /\ pairs[i].item_b = 3
           /\ pairs[i].times_together = 1
           /\ pairs[i].confidence = [num |-> 1, den |-> 3]
      /\ (IsQuery /\ last.item = 1 /\ last.limit = 3)
           => (Len(last.recs) = 1 /\ last.recs[1].item = 2)

\* the three orders are completed and Pizza was queried with limit 3: Cola at 66.7 %
ScenarioOutcomeWitness ==
    /\ ScenarioDone
    /\ IsQuery /\ last.item = 1 /\ last.limit = 3
    /\ Len(last.recs) = 1
    /\ last.recs[1].item = 2 /\ last.recs[1].reason = 2 /\ last.recs[1].confidence = 667

\* ------------------------------------------------------------------- C11
\* times_together of the pair in the store, 0 when the store has no row for it
TimesTogether(store, h, key) ==
    IF \E i \in 1..Len(store) : store[i].hotel = h /\ Key(store[i]) = key
    THEN LET i == CHOOSE i \in 1..Len(store) : store[i].hotel = h /\ Key(store[i]) = key
         IN store[i].times_together
    ELSE 0

\* C11: two calls of update_pairs_from_order in a row for the same COMPLETED order
\* with N >= 2 distinct items raise times_together of each of its C(N,2) pairs by 2
\* in total, and of no other row: the second call is counted like the first.
NotIdempotent ==
    (last.op = "update_pairs_from_order" /\ last.log = "updated" /\ last.calls = 2) =>
        LET order == orders[last.order]
            keys == PairSet(order.items)
        IN /\ Cardinality(keys) = Choose2(Len(order.items))
           /\ \A k \in keys :
                TimesTogether(pairs, order.hotel, k)
                  = TimesTogether(last.before, order.hotel, k) + 2
           /\ \A i \in 1..Len(pairs) :
                (pairs[i].hotel # order.hotel \/ Key(pairs[i]) \notin keys)
                => (i <= Len(last.before)
                      /\ pairs[i].times_together = last.before[i].times_together)

\* the updater ran twice in a row on a COMPLETED <<2, 1>>: pair (1,2), counted once
\* by the order's completion, went from 1 to 3
NotIdempotentWitness ==
    /\ last.op = "update_pairs_from_order" /\ last.log = "updated" /\ last.calls = 2
    /\ orders[last.order].items = <<2, 1>>
    /\ TimesTogether(last.before, "h1", <<1, 2>>) = 1
    /\ TimesTogether(pairs, "h1", <<1, 2>>) = 3

\* ------------------------------------------------------------------- C12
\* C12: whatever happens in the pair update that the save of a COMPLETED order
\* starts, the save returns to update_order_status: the new status is in the
\* Order table and the response is the success response, also when the update
\* raised part-way.
SaveSurvivesUpdate ==
    (last.op = "update_order_status" /\ last.status = COMPLETED) =>
        /\ last.response = Ok
        /\ orders[last.order].status = COMPLETED

\* the pair update of a three-item order raised after its first pair was written
SaveSurvivesUpdateWitness ==
    /\ last.op = "update_order_status" /\ last.log = "failed"
    /\ Len(orders[last.order].items) = 3
    /\ orders[last.order].status = COMPLETED
    /\ Len(pairs) = 1 /\ pairs[1].confidence.num = 0

\* ----------------------------------------------------------- C13 .. C16
\* the step stores exactly one event, after the ones there were
OneEventAdded ==
    /\ Len(events') = Len(events) + 1
    /\ SubSeq(events', 1, Len(events)) = events

\* the event the step stored
Stored == events'[Len(events')]

\* the step changes no row but those in the set, and creates and deletes none
OnlyRowsChanged(rows) ==
    /\ Len(pairs') = Len(pairs)
    /\ \A i \in 1..Len(pairs) : i \notin rows => pairs'[i] = pairs[i]

\* the rows of the hotel that hold the item
RowsWith(h, item) ==
    { i \in 1..Len(pairs) :
        pairs[i].hotel = h /\ item \in {pairs[i].item_a, pairs[i].item_b} }

\* the rows of the hotel for the unordered pair of the two items
RowsOf(h, x, y) ==
    { i \in 1..Len(pairs) :
        /\ pairs[i].hotel = h /\ x # y
        /\ {pairs[i].item_a, pairs[i].item_b} = {x, y}
        /\ pairs[i].item_a < pairs[i].item_b }

\* C13: track_impression without a recommended_item, with or without a
\* source_item, stores no event and changes no pair row.
ImpressionNeedsItem ==
    [][(last'.op = "track_impression" /\ last'.recommended_item = NoItem)
        => (events' = events /\ pairs' = pairs)]_vars

\* an impression with a source item and no recommended item came in after an
\* event had been stored, and left one event
ImpressionNeedsItemWitness ==
    /\ last.op = "track_impression" /\ last.recommended_item = NoItem
    /\ last.source_item = 1 /\ last.log = "warning"
    /\ Len(events) = 1

\* C14: track_impression with a recommended_item stores exactly one IMPRESSION
\* event; with a source_item whose pair with the recommended item has a row for the
\* tenant, that row alone gains 1 in times_recommended and nothing else in it
\* changes; without such a row, or without a source_item, no row is created or changed.
ImpressionCounted ==
    [][(last'.op = "track_impression" /\ last'.recommended_item # NoItem) =>
        LET h == last'.hotel
            src == last'.source_item
            rec == last'.recommended_item
            rows == IF src = NoItem THEN {} ELSE RowsOf(h, src, rec)
        IN /\ OneEventAdded
           /\ Stored.event_type = IMPRESSION /\ Stored.hotel = h
           /\ Stored.source_item = src /\ Stored.recommended_item = rec
           /\ Cardinality(rows) <= 1
           /\ OnlyRowsChanged(rows)
           /\ \A i \in rows :
                pairs'[i] = [pairs[i] EXCEPT !.times_recommended = @ + 1]]_vars

\* Salad (3) was shown Cola (2) twice at hotel h1: the row of (2,3) stands at 2 and
\* the other rows at 0
ImpressionCountedWitness ==
    /\ last.op = "track_impression" /\ last.hotel = "h1"
    /\ last.source_item = 3 /\ last.recommended_item = 2
    /\ Len(events) = 2
    /\ pairs[2].times_recommended = 2
    /\ pairs[1].times_recommended = 0 /\ pairs[4].times_recommended = 0

\* C15: track_conversion stores exactly one CONVERSION event linked to the order;
\* every pair row of the tenant that holds recommended_item gains 1 in
\* times_converted and the event's revenue in revenue_generated; no other row changes.
ConversionCredited ==
    [][last'.op = "track_conversion" =>
        LET rows == RowsWith(last'.hotel, last'.recommended_item)
        IN /\ OneEventAdded
           /\ Stored.event_type = CONVERSION /\ Stored.hotel = last'.hotel
           /\ Stored.order = last'.order
           /\ Stored.recommended_item = last'.recommended_item
           /\ OnlyRowsChanged(rows)
           /\ \A i \in rows :
                pairs'[i] = [pairs[i] EXCEPT !.times_converted = @ + 1,
                                             !.revenue_generated = @ + Stored.revenue]]_vars

\* two conversions of Cola at hotel h1, worth 15.00 and 5.00: rows (1,2) and (2,3)
\* stand at 2 conversions and 20.00, row (1,3) and hotel h2's row at none
ConversionCreditedWitness ==
    /\ last.op = "track_conversion" /\ last.hotel = "h1" /\ last.recommended_item = 2
    /\ pairs[1].times_converted = 2 /\ pairs[1].revenue_generated = 2000
    /\ pairs[2].times_converted = 2 /\ pairs[2].revenue_generated = 2000
    /\ pairs[3].times_converted = 0 /\ pairs[3].revenue_generated = 0
    /\ pairs[4].times_converted = 0 /\ pairs[4].revenue_generated = 0

\* quantity x price at order of the order's line for the item, 0 without a line
LineTotal(order, item) ==
    IF \E k \in 1..Len(order.items) : order.items[k] = item
    THEN LET k == CHOOSE k \in 1..Len(order.items) : order.items[k] = item
         IN order.quantity[k] * order.price_at_order[k]
    ELSE 0

\* C16: the revenue on the event of a conversion, which is the amount added to the
\* pairs, is the revenue passed in; when none is passed it is the line total of the
\* order's line for recommended_item, and zero when the order has no such line.
RevenueAttribution ==
    [][last'.op = "track_conversion" =>
        LET revenue == IF last'.revenue = NoRevenue
                       THEN LineTotal(orders[last'.order], last'.recommended_item)
                       ELSE last'.revenue
        IN /\ Stored.revenue = revenue
           /\ \A i \in RowsWith(last'.hotel, last'.recommended_item) :
                pairs'[i].revenue_generated = pairs[i].revenue_generated + revenue]_vars

\* Cola converted three times on order 1: without a revenue (15.00 from 2 x 7.50),
\* with revenue 0 and with revenue 5.00; and an item without a line gave 0
RevenueAttributionWitness ==
    /\ Len(events) = 3
    /\ \E i, j, k \in 1..3 :
         /\ events[i].event_type = CONVERSION /\ events[i].revenue = 1500
         /\ events[j].event_type = CONVERSION /\ events[j].revenue = 0
              /\ events[j].recommended_item = 2
         /\ events[k].event_type = CONVERSION /\ events[k].revenue = 500
    /\ last.op = "track_conversion" /\ last.revenue = 0 /\ last.recommended_item = 2
    /\ pairs[1].revenue_generated = 2000

\* ------------------------------------------------------------------- C17
IsSummary == last.op = "get_performance_summary"

\* the tenant's events of the type that are at most last.days old at the reading
InWindow(event_type) ==
    { i \in 1..Len(events) :
        /\ events[i].hotel = last.hotel
        /\ events[i].event_type = event_type
        /\ last.at - events[i].created_at <= last.days }

RECURSIVE RevenueOf(_)
RevenueOf(S) ==
    IF S = {} THEN 0
    ELSE LET i == CHOOSE i \in S : TRUE IN events[i].revenue + RevenueOf(S \ {i})

\* the three counts of C17
SummaryCounts ==
    /\ last.summary.total_conversions = Cardinality(InWindow(CONVERSION))
    /\ last.summary.total_impressions = Cardinality(InWindow(IMPRESSION))
    /\ last.summary.total_revenue = RevenueOf(InWindow(CONVERSION))

\* C17 as stated: the counts and the revenue are those of the tenant's events in the
\* window, and conversion_rate is exactly total_conversions / total_impressions x 100
\* (0 without impressions); the rate is kept in hundredths of a percent.
SummaryExactRate ==
    IsSummary =>
        /\ SummaryCounts
        /\ IF Cardinality(InWindow(IMPRESSION)) = 0
           THEN last.summary.conversion_rate = 0
           ELSE last.summary.conversion_rate * Cardinality(InWindow(IMPRESSION))
                  = Cardinality(InWindow(CONVERSION)) * 100 * 100

\* C17 amended: the same, with conversion_rate the multiple of 0.01 nearest to
\* total_conversions / total_impressions x 100.
SummaryRoundedRate ==
    IsSummary =>
        /\ SummaryCounts
        /\ LET imps == Cardinality(InWindow(IMPRESSION))
               exact == Cardinality(InWindow(CONVERSION)) * 100 * 100
               rate == last.summary.conversion_rate
           IN IF imps = 0 THEN rate = 0
              ELSE /\ 2 * (rate * imps - exact) <= imps
                   /\ 2 * (exact - rate * imps) <= imps

\* one conversion worth 15.00 on three impressions of hotel h1, all in the window:
\* the summary says 33.33 %
SummaryRoundedRateWitness ==
    /\ IsSummary /\ last.hotel = "h1"
    /\ last.summary.total_impressions = 3
    /\ last.summary.total_conversions = 1
    /\ last.summary.total_revenue = 1500
    /\ last.summary.conversion_rate = 3333

\* ------------------------------------------------------------------- C18
\* the times_together column of the store, row by row
Counts(store) == [i \in 1..Len(store) |-> store[i].times_together]

\* C18: a status update that saves an order which was COMPLETED before the save runs
\* no pair update: no row is created and no times_together changes.
CompletionFiresOnce ==
    [][(/\ last'.op = "update_order_status"
        /\ last'.log # "invalid_status"
        /\ orders[last'.order].status = COMPLETED)
        => Counts(pairs') = Counts(pairs)]_vars

\* ------------------------------------------------------------------- C19
\* the orders of the hotel that are COMPLETED now and hold both items
CompletedWithBoth(h, a, b) ==
    { o \in 1..Len(orders) :
        /\ orders[o].hotel = h /\ orders[o].status = COMPLETED
        /\ {a, b} \subseteq { orders[o].items[k] : k \in 1..Len(orders[o].items) } }

\* C19: after any sequence of placements and status updates, every pair row's
\* times_together is the number of the tenant's orders that are COMPLETED now and
\* hold both items of the pair.
CountMatchesHistory ==
    \A i \in 1..Len(pairs) :
        pairs[i].times_together
          = Cardinality(CompletedWithBoth(pairs[i].hotel, pairs[i].item_a, pairs[i].item_b))

\* ------------------------------------------------------------------- C20
\* C20: an order whose stored status is COMPLETED or CANCELLED keeps that status
\* in every later step.
TerminalStatuses ==
    [][\A o \in 1..Len(orders) :
         orders[o].status \in {COMPLETED, CANCELLED}
         => orders'[o].status = orders[o].status]_vars

\* ------------------------------------------------------------------- C21
\* both workers have run their pair update to its end
BothDone == \A p \in Workers : procs[p].pc = "done"

\* times_together of Pizza + Cola before the first worker started
BaseCount ==
    LET c(p) == TimesTogether(procs[p].before, "h1", <<1, 2>>)
    IN IF c(1) < c(2) THEN c(1) ELSE c(2)

\* C21: when two requests have completed two orders of one tenant that both hold
\* A and B, whatever the interleaving of their reads and writes, the tenant has
\* one row for {A, B} and its times_together is 2 more than before.
NoLostUpdate ==
    BothDone =>
        /\ Cardinality({ i \in 1..Len(pairs) :
              pairs[i].hotel = "h1"
                /\ {pairs[i].item_a, pairs[i].item_b} = {1, 2} }) = 1
        /\ TimesTogether(pairs, "h1", <<1, 2>>) = BaseCount + 2

\* ------------------------------------------------------------------- C22
\* the worker has written some of its rows and not finished its confidence pass
HalfWay(p) ==
    /\ procs[p].pc \in {"get", "create", "save", "confidence"}
    /\ procs[p].written > 0

\* C22: the pair writes of one order and the confidence pass after them are one
\* atomic unit: no get_recommendations call reads the store while a request is
\* half-way through them, and a request that failed has left none of its writes.
UpdateIsAtomic ==
    /\ IsQuery => \A p \in Workers : ~HalfWay(p)
    /\ \A p \in Workers : procs[p].pc = "failed" => procs[p].written = 0

\* ------------------------------------------------------------------- C23
\* the step is a status update that saved the order
SavedStatus ==
    last'.op = "update_order_status" /\ last'.log # "invalid_status"

\* C23: when an order with a table is saved COMPLETED or CANCELLED and the table is
\* OCCUPIED, the table is AVAILABLE afterwards; a table in another status is left as
\* it is; a save in any other status, or of an order without a table, changes no table.
TableReleased ==
    [][SavedStatus =>
        LET t == orders[last'.order].table
        IN \A u \in Tables :
             tables'[u] =
               IF /\ u = t
                  /\ last'.status \in {COMPLETED, CANCELLED}
                  /\ tables[u] = OCCUPIED
               THEN AVAILABLE
               ELSE tables[u]]_vars

\* three requests: two orders placed at tables 1 and 2, the first cancelled: table
\* 1 is free and table 2 still taken
TableReleasedWitness ==
    /\ requests = 3
    /\ last.op = "update_order_status" /\ last.status = CANCELLED
    /\ Len(orders) = 2
    /\ orders[1].table = 1 /\ orders[2].table = 2
    /\ last.order = 1
    /\ tables[1] = AVAILABLE /\ tables[2] = OCCUPIED

\* ------------------------------------------------------------------- C28
\* C28: a table with an order that is neither COMPLETED nor CANCELLED is OCCUPIED.
ActiveTableOccupied ==
    \A t \in Tables :
        (\E o \in 1..Len(orders) :
            orders[o].table = t /\ orders[o].status \notin {COMPLETED, CANCELLED})
        => tables[t] = OCCUPIED

\* ------------------------------------------------------------------- C29
\* the step is a request to the recommendations endpoint that was answered
Answered == last'.op = "get_item_recommendations" /\ last'.response = Ok

\* the pair row of the store behind record k of the answer
Behind(row, rec) ==
    /\ row = rec.pair
    /\ row.hotel = last'.hotel
    /\ {row.item_a, row.item_b} = {last'.item, rec.item}

\* C29: one answered request for item X adds one IMPRESSION event per returned
\* recommendation (source X, recommended the returned item), each returned
\* recommendation has its pair row, exactly those rows gain 1 in times_recommended
\* and every other row, event and field stays as it was.
EndpointImpressions ==
    [][Answered =>
        LET recs == last'.recs
            n == Len(recs)
        IN /\ Len(events') = Len(events) + n
           /\ SubSeq(events', 1, Len(events)) = events
           /\ \A k \in 1..n :
                LET e == events'[Len(events) + k]
                IN /\ e.event_type = IMPRESSION
                   /\ e.hotel = last'.hotel
                   /\ e.source_item = last'.item
                   /\ e.recommended_item = recs[k].item
           /\ \A k \in 1..n : \E i \in 1..Len(pairs) : Behind(pairs[i], recs[k])
           /\ Len(pairs') = Len(pairs)
           /\ \A i \in 1..Len(pairs) :
                pairs'[i] =
                  IF \E k \in 1..n : Behind(pairs[i], recs[k])
                  THEN [pairs[i] EXCEPT !.times_recommended = @ + 1]
                  ELSE pairs[i]]_vars

\* the first request, for item 2 with four qualifying pairs and item 3 unavailable:
\* two recommendations returned, two impressions, one pair dropped as unavailable and
\* one beyond the limit, both still at times_recommended 0
EndpointImpressionsWitness ==
    /\ last.op = "get_item_recommendations" /\ last.response = Ok
    /\ last.hotel = "h1" /\ last.item = 2
    /\ Len(last.recs) = 2 /\ Len(events) = 2
    /\ ~available[3]
    /\ Cardinality({ i \in 1..Len(pairs) : Qualifies(pairs[i], "h1", 2) }) = 4
    /\ Cardinality({ i \in 1..Len(pairs) :
           pairs[i].hotel = "h1" /\ pairs[i].times_recommended = 1 }) = 2
    /\ \E i \in 1..Len(pairs) :
           /\ Qualifies(pairs[i], "h1", 2) /\ OtherItem(pairs[i], 2) = 3
           /\ pairs[i].times_recommended = 0

\* ------------------------------------------------------------------- C24
\* the step is a save of an order by update_order_status
OrderStep == last'.op = "update_order_status" /\ last'.log # "invalid_status"

\* the step is a call of the Event Tracker of an engine
TrackerStep == last'.op \in {"track_impression", "track_conversion"}

\* the step is one of the network analytics operations
NetworkStep ==
    last'.op \in {"get_network_size", "get_network_benchmarks",
                  "get_cross_network_trending_patterns"}

\* the rows and events of the hotels other than h are as they were, and what is new
\* belongs to h
OnlyTenant(h) ==
    /\ Len(pairs') >= Len(pairs)
    /\ \A i \in 1..Len(pairs) : pairs[i].hotel # h => pairs'[i] = pairs[i]
    /\ \A i \in 1..Len(pairs') :
         (i > Len(pairs) \/ pairs'[i] # pairs[i]) => pairs'[i].hotel = h
    /\ Len(events') >= Len(events)
    /\ SubSeq(events', 1, Len(events)) = events
    /\ \A i \in (Len(events) + 1)..Len(events') : events'[i].hotel = h

\* the COMPLETED orders of the hotel that hold the item, after the step
OwnCompleted(h, item) ==
    { o \in 1..Len(orders') :
        /\ orders'[o].hotel = h
        /\ orders'[o].status = COMPLETED
        /\ item \in ItemSet(orders'[o].items) }

\* C24: the pair update of an order of tenant T and the tracker calls of T's engine
\* create and change only rows and events of T, the confidences the update leaves
\* are times_together over the number of T's own COMPLETED orders with item_a, and
\* the network analytics change no row and no event.
TenantIsolation ==
    [][/\ OrderStep =>
            LET h == orders[last'.order].hotel
            IN /\ OnlyTenant(h)
               /\ last'.log = "updated" =>
                    \A i \in 1..Len(pairs') :
                        (pairs'[i].hotel = h /\ OwnCompleted(h, pairs'[i].item_a) # {})
                        => pairs'[i].confidence =
                             Frac(pairs'[i].times_together,
                                  Cardinality(OwnCompleted(h, pairs'[i].item_a)))
       /\ TrackerStep => OnlyTenant(last'.hotel)
       /\ NetworkStep => (pairs' = pairs /\ events' = events)]_vars

\* both hotels hold the pair (1,2) with an event each, and the order of h1 was
\* completed last, after that of h2: its confidence 1/1 counts its own order alone
TenantIsolationWitness ==
    /\ last.op = "update_order_status" /\ last.log = "updated" /\ last.order = 1
    /\ orders[2].status = COMPLETED
    /\ Len(pairs) = 2
    /\ \A i \in 1..2 : pairs[i].times_together = 1 /\ pairs[i].confidence = Frac(1, 1)
    /\ \E i, j \in 1..Len(events) : events[i].hotel = "h1" /\ events[j].hotel = "h2"

\* ------------------------------------------------------------------- C25
\* the step is a tracking call that stored its event
TrackedStep ==
    \/ last'.op = "track_impression" /\ last'.log # "warning"
    \/ last'.op = "track_conversion"
    \/ last'.op = "track_recommendation_event" /\ last'.response = Ok

\* C25: every step keeps the events there are, in their places and unchanged; a
\* tracking call that succeeds adds exactly one event and every other step none.
EventLogAppendOnly ==
    [][/\ Len(events') >= Len(events)
       /\ SubSeq(events', 1, Len(events)) = events
       /\ Len(events') = Len(events) + (IF TrackedStep THEN 1 ELSE 0)]_vars

\* an impression was stored, then an order completed and a summary read, then a
\* conversion stored: the impression is still the first event
EventLogAppendOnlyWitness ==
    /\ last.op = "track_conversion"
    /\ Len(events) = 2
    /\ events[1].event_type = IMPRESSION /\ events[2].event_type = CONVERSION
    /\ events[2].created_at > events[1].created_at + 1
    /\ Len(pairs) > 0

\* ------------------------------------------------------------------- C26
\* the row after the step has the key and the tracker's fields of the row before
UpdaterFieldsOnly(pre, post) ==
    post = [pre EXCEPT !.times_together = post.times_together,
                       !.confidence = post.confidence]

\* the row after the step has the key and the updater's fields of the row before
TrackerFieldsOnly(pre, post) ==
    post = [pre EXCEPT !.times_recommended = post.times_recommended,
                       !.times_converted = post.times_converted,
                       !.revenue_generated = post.revenue_generated]

\* C26: a save of an order changes only times_together and confidence of the rows
\* there are and stores no event; a tracker call changes only times_recommended,
\* times_converted and revenue_generated and creates no row; no step deletes a row.
FieldOwnership ==
    [][/\ Len(pairs') >= Len(pairs)
       /\ OrderStep =>
            /\ events' = events
            /\ \A i \in 1..Len(pairs) : UpdaterFieldsOnly(pairs[i], pairs'[i])
       /\ TrackerStep =>
            /\ Len(pairs') = Len(pairs)
            /\ \A i \in 1..Len(pairs) : TrackerFieldsOnly(pairs[i], pairs'[i])]_vars

\* the last step completed order 1 again on a row the tracker had counted an
\* impression and a conversion on: times_together 2 with the tracker's fields kept
FieldOwnershipWitness ==
    /\ last.op = "update_order_status" /\ last.log = "updated" /\ last.order = 1
    /\ \E i \in 1..Len(pairs) :
         /\ pairs[i].hotel = "h1"
         /\ pairs[i].times_together = 2
         /\ pairs[i].times_recommended = 1
         /\ pairs[i].times_converted = 1
         /\ pairs[i].revenue_generated = 1500

\* ------------------------------------------------------------------- C27
\* C27: a second run of _update_confidence_scores right after the first leaves
\* every pair row as the first run left it, and in both runs a row whose item_a is
\* in no COMPLETED order of the hotel keeps the confidence it had.
ConfidenceIdempotent ==
    (last.op = "update_confidence_scores" /\ last.calls = 2) =>
        /\ pairs = last.first
        /\ \A i \in 1..Len(pairs) :
             (pairs[i].hotel = last.hotel
                /\ \A o \in 1..Len(orders) :
                     ~(/\ orders[o].hotel = last.hotel
                       /\ orders[o].status = COMPLETED
                       /\ pairs[i].item_a \in ItemSet(orders[o].items)))
             => pairs[i].confidence = last.before[i].confidence

\* two runs in a row for h1 after its order was completed twice and then cancelled:
\* the row keeps confidence 2/1 through both runs
ConfidenceIdempotentWitness ==
    /\ last.op = "update_confidence_scores" /\ last.calls = 2 /\ last.hotel = "h1"
    /\ orders[1].status = CANCELLED
    /\ \E i \in 1..Len(pairs) :
         /\ pairs[i].hotel = "h1"
         /\ pairs[i].times_together = 2
         /\ pairs[i].confidence = Frac(2, 1)

\* ------------------------------------------------------------------- C30
\* C30: in every step every pair row stays in the store with its tenant and items,
\* and its times_together, times_recommended and times_converted do not decrease.
CountersMonotone ==
    [][/\ Len(pairs') >= Len(pairs)
       /\ \A i \in 1..Len(pairs) :
            /\ pairs'[i].hotel = pairs[i].hotel
            /\ Key(pairs'[i]) = Key(pairs[i])
            /\ pairs'[i].times_together >= pairs[i].times_together
            /\ pairs'[i].times_recommended >= pairs[i].times_recommended
            /\ pairs'[i].times_converted >= pairs[i].times_converted]_vars

\* order 1 was completed and then cancelled: no order of h1 is COMPLETED and the
\* row of (1,2) still counts it, with the impression and the conversion tracked on it
CountersMonotoneWitness ==
    /\ last.op = "update_order_status" /\ last.status = CANCELLED /\ last.order = 1
    /\ orders[1].status = CANCELLED
    /\ \E i \in 1..Len(pairs) :
         /\ pairs[i].hotel = "h1"
         /\ pairs[i].times_together = 1
         /\ pairs[i].times_recommended = 1
         /\ pairs[i].times_converted = 1

====
